---- MODULE Spec2Model ----
(***************************************************************************)
(* Model of the AI Automation Suggester integration: the coordinator's     *)
(* refresh cycle (coordinator.py), the generate_suggestions service and    *)
(* the ai_automation_suggester_update event handler (__init__.py).         *)
(*                                                                         *)
(* Python coroutines run on one event loop: a step of the model is the     *)
(* code a task runs between two suspension points.  The suspension points  *)
(* of a cycle are the automations.yaml read (coordinator.py:318) and the   *)
(* provider HTTP call (session.post in every provider).                    *)
(***************************************************************************)
EXTENDS Integers, Sequences, FiniteSets, TLC

\* ------------------------------------------------------------------ bounds
NumEntities == 2
NumCallers == 2
MaxPromptParts == 1
MaxStimuli == 4
MaxTokens == 4
MaxPromptLen == 13
MaxBudget == 2

\* ------------------------------------------------------- values and inputs
None == "None"

EntityIds == <<"light.kitchen", "sensor.temp", "light.hall", "switch.fan">>

Entities == {EntityIds[i] : i \in 1..NumEntities}

\* eid.split(".")[0]
DomainOf(eid) ==
  CASE eid = "light.kitchen" -> "light"
    [] eid = "sensor.temp" -> "sensor"
    [] eid = "light.hall" -> "light"
    [] OTHER -> "switch"

LiveStates == {"on"}

BrokenStates == {"unavailable", "unknown"}

Callers == 1..NumCallers

TimerTask == 0

Procs == Callers \cup {TimerTask}

\* The system prompt is the module constant SYSTEM_PROMPT followed by the
\* "Additional User Context" texts appended to it; the model keeps the
\* sequence of appended texts, so the base prompt is the empty sequence.
SYSTEM_PROMPT == <<>>

DefaultInput ==
  [provider_config |-> "", custom_prompt |-> "", all_entities |-> FALSE,
   domains |-> {}, entity_limit |-> 200, automation_read_yaml |-> FALSE,
   automation_limit |-> 100, temperature |-> "0.1"]

\* call.data of the generate_suggestions service
CallInputs ==
  { DefaultInput,
    [DefaultInput EXCEPT !.custom_prompt = "P1", !.all_entities = TRUE,
                         !.temperature = "0.9"],
    [DefaultInput EXCEPT !.custom_prompt = "P2", !.domains = {"light"},
                         !.entity_limit = 1, !.automation_read_yaml = TRUE,
                         !.automation_limit = 1],
    [DefaultInput EXCEPT !.custom_prompt = "P1", !.all_entities = TRUE,
                         !.temperature = "abc"],
    [DefaultInput EXCEPT !.provider_config = "missing"] }

\* entry.data / entry.options of the config entry (temperature in tenths);
\* api_key is the setting the provider cannot work without: its API key, or
\* the endpoint or address of the providers that are reached by one, and it
\* is None when the entry does not hold it
ProviderConfigs ==
  { [provider |-> "OpenAI", api_key |-> "sk", temperature |-> 7],
    [provider |-> "OpenAI", api_key |-> "", temperature |-> 7],
    [provider |-> "Bogus", api_key |-> "sk", temperature |-> 7] }

KnownProviders ==
  {"OpenAI", "Anthropic", "Google", "Groq", "LocalAI", "Ollama",
   "Custom OpenAI", "Mistral AI", "Perplexity AI", "OpenRouter",
   "OpenAI Azure", "Generic OpenAI"}

\* float(temp): the value in tenths, or "ValueError"
Float(temp) ==
  CASE temp = "0.1" -> 1
    [] temp = "0.9" -> 9
    [] OTHER -> -1

FloatRaises(temp) == temp \notin {"0.1", "0.9"}

\* ------------------------------------------------------------ hass.states
\* hass_states is the state machine of the host, most recently updated
\* entity first: a sequence of [eid, state].
Ids(hs) == {hs[i].eid : i \in DOMAIN hs}

StateOf(hs, e) == hs[CHOOSE i \in DOMAIN hs : hs[i].eid = e].state

Without(hs, e) ==
  LET Keep(x) == x.eid # e IN SelectSeq(hs, Keep)

SetState(hs, e, s) == <<[eid |-> e, state |-> s]>> \o Without(hs, e)

EmptyDict == [e \in {} |-> 0]

\* ------------------------------------------------ _async_update_data parts
Collect_unfiltered(selected_domains, hs) ==
  [e \in {x \in Ids(hs) :
            selected_domains = {} \/ DomainOf(x) \in selected_domains}
     |-> [state |-> StateOf(hs, e)]]

\* A snapshot that ignores the domain allow-list.
Collect_all_domains(selected_domains, hs) ==
  [e \in {x \in Ids(hs) : StateOf(hs, x) \notin BrokenStates}
     |-> [state |-> StateOf(hs, e)]]

\* gather entities: domain allow-list, then drop unavailable/unknown
Collect(selected_domains, hs) ==
  [e \in {x \in Ids(hs) :
            /\ (selected_domains = {} \/ DomainOf(x) \in selected_domains)
            /\ StateOf(hs, x) \notin BrokenStates}
     |-> [state |-> StateOf(hs, e)]]

Pick_delta_only(scan_all, current, previous) ==
  [e \in DOMAIN current \ DOMAIN previous |-> current[e]]

\* picked = current if scan_all else the entries absent from the baseline
Pick(scan_all, current, previous) ==
  IF scan_all
    THEN current
    ELSE [e \in DOMAIN current \ DOMAIN previous |-> current[e]]

Min(a, b) == IF a < b THEN a ELSE b

\* A selection that keeps the least recently updated entities.
Selection_oldest(picked, hs, entity_limit) ==
  LET InPicked(x) == x.eid \in DOMAIN picked
      sorted == SelectSeq(hs, InPicked)
      n == Min(entity_limit, Len(sorted))
  IN [i \in 1..n |-> sorted[Len(sorted) - n + i].eid]

\* sorted(..., key=last_updated, reverse=True)[:entity_limit]
Selection(picked, hs, entity_limit) ==
  LET InPicked(x) == x.eid \in DOMAIN picked
      sorted == SelectSeq(hs, InPicked)
      n == Min(entity_limit, Len(sorted))
  IN [i \in 1..n |-> sorted[i].eid]

\* ----------------------------------------------------------- _build_prompt
NoPrompt == [built |-> FALSE, system |-> <<>>, body |-> <<>>]

\* The prompt as its system text and its titled sections in order.
BuildPrompt(system, selection, autom_codes) ==
  [built |-> TRUE,
   system |-> system,
   body |->
     <<[title |-> "Here are the Entities (Recently Active):",
        ids |-> selection],
       [title |-> "Existing Automations (Overview):", ids |-> <<>>]>>
     \o (IF autom_codes
           THEN <<[title |->
                     "Existing Automation YAML (Analyze for improvements):",
                   ids |-> <<>>]>>
           ELSE <<>>)]

SectionIds(prompt, title) ==
  UNION {{prompt.body[i].ids[j] : j \in DOMAIN prompt.body[i].ids} :
           i \in {k \in DOMAIN prompt.body : prompt.body[k].title = title}}

\* ---------------------------------------------------- _parse_json_response
\* A reply is a sequence of tokens: "[" and "]", complete JSON objects
\* ("A", "B"), an object cut off before its closing brace ("cut"), prose
\* ("txt"), a code fence ("fence"), a JSON number ("5") and "null".
Objects == {"A", "B"}

Tokens == {"[", "]", "A", "B", "cut", "txt", "fence", "5", "null"}

JsonErr == [t |-> "err", v |-> <<>>]

\* json.loads on a token sequence
json_loads(toks) ==
  IF toks = <<"5">> THEN [t |-> "num", v |-> <<>>]
  ELSE IF toks = <<"null">> THEN [t |-> "null", v |-> <<>>]
  ELSE IF Len(toks) = 1 /\ toks[1] \in Objects THEN [t |-> "dict", v |-> toks]
  ELSE IF /\ Len(toks) >= 2
          /\ toks[1] = "["
          /\ toks[Len(toks)] = "]"
          /\ \A i \in 2..(Len(toks) - 1) : toks[i] \in Objects
    THEN [t |-> "list", v |-> SubSeq(toks, 2, Len(toks) - 1)]
  ELSE JsonErr

\* re.search for a fenced block holding an array: the leftmost fence
\* followed by "[", and the nearest "]" that a fence follows
FenceMatches(toks) ==
  {i \in DOMAIN toks :
     /\ toks[i] = "fence"
     /\ i + 1 \in DOMAIN toks /\ toks[i + 1] = "["
     /\ \E j \in (i + 2)..Len(toks) :
          toks[j] = "]" /\ j + 1 \in DOMAIN toks /\ toks[j + 1] = "fence"}

FenceGroup(toks) ==
  LET i == CHOOSE a \in FenceMatches(toks) :
             \A b \in FenceMatches(toks) : a <= b
      ends == {j \in (i + 2)..Len(toks) :
                 toks[j] = "]" /\ j + 1 \in DOMAIN toks /\ toks[j + 1] = "fence"}
      j == CHOOSE a \in ends : \A b \in ends : a <= b
  IN SubSeq(toks, i + 1, j)

EmptyList == [t |-> "list", v |-> <<>>]

_parse_json_response(response) ==
  LET direct == json_loads(response)
      opens == {i \in DOMAIN response : response[i] = "["}
      closes == {i \in DOMAIN response : response[i] = "]"}
      start == CHOOSE a \in opens : \A b \in opens : a <= b
      end == CHOOSE a \in closes : \A b \in closes : a >= b
  IN IF direct # JsonErr THEN direct
     ELSE IF FenceMatches(response) # {}
       THEN (IF json_loads(FenceGroup(response)) # JsonErr
               THEN json_loads(FenceGroup(response))
               ELSE EmptyList)
     ELSE IF opens # {} /\ closes # {}
       THEN (IF json_loads(SubSeq(response, start, end)) # JsonErr
               THEN json_loads(SubSeq(response, start, end))
               ELSE EmptyList)
     ELSE EmptyList

\* The stages _parse_json_response goes through: the direct json.loads, the
\* search for a fenced block (whose group, when the search matches, is
\* returned or raises into the except branch), and the slice from the first
\* "[" to the last "]" when the search did not match
ParseStages(response) ==
  IF json_loads(response) # JsonErr THEN <<"direct">>
  ELSE IF FenceMatches(response) # {} THEN <<"direct", "fence">>
  ELSE IF /\ \E i \in DOMAIN response : response[i] = "["
          /\ \E i \in DOMAIN response : response[i] = "]"
    THEN <<"direct", "fence", "slice">>
  ELSE <<"direct", "fence">>

\* Python truth value of a parsed JSON value
Truthy(val) ==
  \/ val.t = "list" /\ val.v # <<>>
  \/ val.t = "dict"
  \/ val.t = "num"

\* len(val) is defined
Sized(val) == val.t \in {"list", "dict"}

\* ---------------------------------------------------------------- _dispatch
NoRequest == [sent |-> FALSE, provider |-> "", prompt |-> NoPrompt,
              temperature |-> 0]

\* A dispatch that fails on an unknown provider without a message.
Dispatch_silent(config, prompt) ==
  IF config.provider \notin KnownProviders
    THEN [posted |-> FALSE, error |-> None, request |-> NoRequest]
  ELSE IF config.provider = "Custom OpenAI" /\ config.api_key = None
    THEN [posted |-> FALSE,
          error |-> "processing error: unsupported operand type(s)",
          request |-> NoRequest]
  ELSE IF config.provider # "Custom OpenAI" /\ config.api_key \in {None, ""}
    THEN [posted |-> FALSE,
          error |-> "processing error: API key not configured",
          request |-> NoRequest]
  ELSE [posted |-> TRUE, error |-> None,
        request |-> [sent |-> TRUE, provider |-> config.provider,
                     prompt |-> prompt,
                     temperature |-> config.temperature]]

\* _dispatch up to the provider's session.post: either a failure with
\* _last_error set, or the request that is posted.
Dispatch(config, prompt) ==
  IF config.provider \notin KnownProviders
    THEN [posted |-> FALSE, error |-> "Unknown provider", request |-> NoRequest]
  ELSE IF config.provider = "Custom OpenAI" /\ config.api_key = None
    THEN \* line 907: None + "/v1/chat/completions" raises TypeError
         [posted |-> FALSE,
          error |-> "processing error: unsupported operand type(s)",
          request |-> NoRequest]
  ELSE IF config.provider # "Custom OpenAI" /\ config.api_key \in {None, ""}
    THEN [posted |-> FALSE,
          error |-> "processing error: API key not configured",
          request |-> NoRequest]
  ELSE [posted |-> TRUE, error |-> None,
        request |-> [sent |-> TRUE, provider |-> config.provider,
                     prompt |-> prompt,
                     temperature |-> config.temperature]]


\* ------------------------------------------------------------------- state
VARIABLES
  hass_states,    \* hass.states, most recently updated entity first
  config,         \* the config entry read by _opt
  coordinator,    \* the fields of the AIAutomationCoordinator instance
  debouncer,      \* the request-refresh debouncer of the DataUpdateCoordinator
  procs,          \* the handler tasks: position, locals, locals of the cycle
  prev_cycle,     \* snapshot and mode of the last finished cycle (history)
  last_service,   \* which handler returned last (history)
  stimuli,        \* service calls, events and entity changes so far
  raw_response,   \* a provider reply handed to _parse_json_response
  parsed,         \* what _parse_json_response returned for it
  service,        \* the last save_suggestion call or card action, its result
  truncation      \* a prompt text, the input budget and the text a provider sends

vars == <<hass_states, config, coordinator, debouncer, procs, prev_cycle,
          last_service, stimuli, raw_response, parsed, service, truncation>>

\* what the refresh cycle and its triggers never touch
side_vars == <<raw_response, parsed, service, truncation>>

\* no prompt text has gone through a provider's budget check yet
NoTruncation == [prompt |-> <<>>, in_budget |-> 0, done |-> FALSE,
                 content |-> <<>>]

\* no reply has been parsed yet
Unparsed == [done |-> FALSE, value |-> JsonErr, stages |-> <<>>]

\* no save_suggestion call and no card action has been handled yet
NoService == [name |-> "", suggestion_id |-> "", raised |-> FALSE,
              success |-> FALSE, saved |-> None]

EmptyData ==
  [suggestions_list |-> EmptyList, entities_processed |-> {},
   last_error |-> None]

\* AIAutomationCoordinator.__init__
NewCoordinator ==
  [previous_entities |-> EmptyDict,
   SYSTEM_PROMPT |-> SYSTEM_PROMPT,
   scan_all |-> FALSE,
   selected_domains |-> {},
   entity_limit |-> 200,
   automation_read_file |-> FALSE,
   automation_limit |-> 100,
   current_temperature |-> 0,
   _last_error |-> None,
   data |-> EmptyData]

\* locals of one run of _async_update_data
NoCycle ==
  [trigger |-> "", after |-> "", scan_all |-> FALSE, domains |-> {},
   broken |-> {}, current |-> EmptyDict, picked |-> EmptyDict,
   baseline_before |-> EmptyDict, list_before |-> EmptyList,
   selection |-> <<>>, prompt |-> NoPrompt, sent |-> NoRequest,
   outcome |-> "", stored |-> FALSE, posts |-> 0]

\* A task is idle, suspended in its cycle ("reading", "posting"), at the
\* return of _async_update_data ("cycle_done") or at the return of its
\* handler ("returned").
IdleProc ==
  [pc |-> "idle", kind |-> "", input |-> DefaultInput,
   original_prompt |-> <<>>, how |-> "", raised |-> FALSE, cyc |-> NoCycle]

\* An except branch that never returns: the task stays in the cycle.
CycleExcept_stuck(c, loc, err) ==
  [c |-> [c EXCEPT !._last_error = err, !.data.last_error = err],
   loc |-> [loc EXCEPT !.outcome = "exception"],
   pc |-> "failed"]

\* lines 215-219: the except branch of _async_update_data; posts counts the
\* session.post calls the cycle has made
CycleExcept(c, loc, err) ==
  [c |-> [c EXCEPT !._last_error = err, !.data.last_error = err],
   loc |-> [loc EXCEPT !.outcome = "exception"],
   pc |-> "done"]

\* lines 178-213: response is [some, text]; None is some = FALSE
FinishCycle(c, loc, response) ==
  IF response.some /\ response.text # <<>>
    THEN LET suggestions_list == _parse_json_response(response.text)
         IN IF Truthy(suggestions_list) /\ ~Sized(suggestions_list)
              THEN CycleExcept(c, loc,
                               "object of type 'int' has no len()")
              ELSE [c |-> [c EXCEPT
                             !.data = [suggestions_list |-> suggestions_list,
                                       entities_processed |->
                                         DOMAIN loc.picked,
                                       last_error |-> None],
                             !.previous_entities = loc.current],
                    loc |-> [loc EXCEPT
                               !.outcome =
                                 IF Truthy(suggestions_list)
                                   THEN "merged" ELSE "empty_parse",
                               !.stored = TRUE],
                    pc |-> "done"]
    ELSE [c |-> [c EXCEPT
                   !.data = [suggestions_list |-> EmptyList,
                             entities_processed |-> {},
                             last_error |-> c._last_error],
                   !.previous_entities = loc.current],
          loc |-> [loc EXCEPT
                     !.outcome = IF c._last_error # None
                                   THEN "dispatch_failed"
                                   ELSE "no_response",
                     !.stored = TRUE],
          pc |-> "done"]

NoResponse == [some |-> FALSE, text |-> <<>>]

\* lines 320-334 and 176: the prompt is assembled from self.SYSTEM_PROMPT
\* and handed to _dispatch, which runs to the provider's session.post
Prompted(c, cfg, loc, autom_codes) ==
  LET prompt == BuildPrompt(c.SYSTEM_PROMPT, loc.selection, autom_codes)
      loc1 == [loc EXCEPT !.prompt = prompt]
      d == Dispatch(cfg, prompt)
  IN IF d.posted
       THEN [c |-> [c EXCEPT !._last_error = None],
             loc |-> [loc1 EXCEPT !.sent = d.request, !.posts = @ + 1],
             pc |-> "posting"]
       ELSE FinishCycle([c EXCEPT !._last_error = d.error], loc1, NoResponse)

\* A cycle whose empty pick-set also clears the exposed data.
StartCycle_noop_clears(c, hs, cfg, trig, after) ==
  LET c1 == [c EXCEPT !._last_error = None]
      current == Collect(c.selected_domains, hs)
      picked == Pick(c.scan_all, current, c.previous_entities)
      loc == [NoCycle EXCEPT
                !.trigger = trig, !.after = after,
                !.scan_all = c.scan_all, !.domains = c.selected_domains,
                !.baseline_before = c.previous_entities,
                !.broken = {e \in Ids(hs) : StateOf(hs, e) \in BrokenStates},
                !.current = current, !.picked = picked,
                !.list_before = c.data.suggestions_list,
                !.outcome = "running"]
  IN IF DOMAIN picked = {}
       THEN [c |-> [c1 EXCEPT !.previous_entities = current,
                          !.data = EmptyData],
             loc |-> [loc EXCEPT !.outcome = "noop", !.stored = TRUE],
             pc |-> "done"]
       ELSE LET loc2 == [loc EXCEPT
                           !.selection =
                             Selection(picked, hs, c.entity_limit)]
            IN IF c.automation_read_file
                 THEN [c |-> c1, loc |-> loc2, pc |-> "reading"]
                 ELSE Prompted(c1, cfg, loc2, FALSE)

\* lines 136-176: _async_update_data up to its first suspension point
StartCycle(c, hs, cfg, trig, after) ==
  LET c1 == [c EXCEPT !._last_error = None]
      current == Collect(c.selected_domains, hs)
      picked == Pick(c.scan_all, current, c.previous_entities)
      loc == [NoCycle EXCEPT
                !.trigger = trig, !.after = after,
                !.scan_all = c.scan_all, !.domains = c.selected_domains,
                !.baseline_before = c.previous_entities,
                !.broken = {e \in Ids(hs) : StateOf(hs, e) \in BrokenStates},
                !.current = current, !.picked = picked,
                !.list_before = c.data.suggestions_list,
                !.outcome = "running"]
  IN IF DOMAIN picked = {}
       THEN [c |-> [c1 EXCEPT !.previous_entities = current],
             loc |-> [loc EXCEPT !.outcome = "noop", !.stored = TRUE],
             pc |-> "done"]
       ELSE LET loc2 == [loc EXCEPT
                           !.selection =
                             Selection(picked, hs, c.entity_limit)]
            IN IF c.automation_read_file
                 THEN [c |-> c1, loc |-> loc2, pc |-> "reading"]
                 ELSE Prompted(c1, cfg, loc2, FALSE)

\* ------------------------------------------------- async_request_refresh
Unlocked == -1

\* A refresh that bypasses the debouncer and always starts a cycle.
async_request_refresh_direct(c, d, hs, cfg, p, trig, after) ==
  LET r == StartCycle(c, hs, cfg, trig, after)
  IN [c |-> r.c, d |-> [d EXCEPT !.lock = p], loc |-> r.loc,
      how |-> "ran", pc |-> r.pc]

\* coordinator.async_request_refresh(): the coordinator is constructed with
\* the default request-refresh debouncer (immediate, with a cooldown).  A
\* request during the cooldown is deferred to the end of the timer, a
\* request while a refresh holds the lock is dropped, and otherwise the
\* refresh runs under the lock.
async_request_refresh(c, d, hs, cfg, p, trig, after) ==
  IF d.timer_task
    THEN [c |-> c, d |-> [d EXCEPT !.execute_at_end_of_timer = TRUE],
          loc |-> NoCycle, how |-> "deferred", pc |-> "done"]
  ELSE IF d.lock # Unlocked
    THEN [c |-> c, d |-> d, loc |-> NoCycle, how |-> "coalesced",
          pc |-> "done"]
  ELSE LET r == StartCycle(c, hs, cfg, trig, after)
       IN [c |-> r.c, d |-> [d EXCEPT !.lock = p], loc |-> r.loc,
           how |-> "ran", pc |-> r.pc]

\* ------------------------------------------------------- handler epilogues
GenerateFinally_prompt_only(c, original_prompt) ==
  [c EXCEPT !.SYSTEM_PROMPT = original_prompt]

\* __init__.py:111-116, the finally block of handle_generate_suggestions
GenerateFinally(c, original_prompt) ==
  [c EXCEPT !.SYSTEM_PROMPT = original_prompt,
            !.scan_all = FALSE,
            !.selected_domains = {},
            !.current_temperature = 1]

\* what the awaiting handler runs once async_request_refresh has returned
Epilogue(c, kind, original_prompt) ==
  CASE kind = "generate" -> GenerateFinally(c, original_prompt)
    [] kind = "event" -> [c EXCEPT !.scan_all = FALSE]
    [] OTHER -> c

ServiceTag(proc) ==
  IF /\ proc.kind = "generate" /\ ~proc.raised
     /\ proc.input.temperature = "0.9" /\ proc.input.all_entities
    THEN "override_done"
    ELSE "other"

\* No task is between the end of its cycle and the return of its handler:
\* the event loop runs that code without yielding to another task.
Quiescent == \A q \in Procs : procs[q].pc \in {"idle", "reading", "posting"}

\* where the task p stands once async_request_refresh has run as far as r
Settle(p, kind, inp, original_prompt, r) ==
  LET proc == [pc |-> "", kind |-> kind, input |-> inp,
               original_prompt |-> original_prompt, how |-> r.how,
               raised |-> FALSE, cyc |-> r.loc]
  IN /\ debouncer' = r.d
     /\ IF r.how # "ran"
          THEN /\ coordinator' = Epilogue(r.c, kind, original_prompt)
               /\ procs' = [procs EXCEPT ![p] = [proc EXCEPT !.pc = "returned"]]
          ELSE /\ coordinator' = r.c
               /\ procs' = [procs EXCEPT
                              ![p] = [proc EXCEPT
                                        !.pc = IF r.pc = "done"
                                                 THEN "cycle_done"
                                                 ELSE r.pc]]
     /\ UNCHANGED <<prev_cycle, last_service>>

\* A new task takes the first caller slot that holds no task: the slots
\* only name the tasks of the event loop, which the code never tells apart.
FreeSlot(p) ==
  /\ procs[p].pc = "idle"
  /\ \A q \in Callers : q < p => procs[q].pc # "idle"

\* ----------------------------------------------------------------- actions
\* The host changes or adds an entity state.
EntityChange(e, s) ==
  /\ UNCHANGED side_vars
  /\ Quiescent
  /\ stimuli < MaxStimuli
  /\ hass_states' = SetState(hass_states, e, s)
  /\ hass_states' # hass_states
  /\ stimuli' = stimuli + 1
  /\ UNCHANGED <<config, coordinator, debouncer, procs, prev_cycle,
                 last_service>>

\* __init__.py:96-107, the overrides written before the refresh
ApplyOverrides(c, inp) ==
  [c EXCEPT !.SYSTEM_PROMPT =
              IF inp.custom_prompt # ""
                THEN Append(c.SYSTEM_PROMPT, inp.custom_prompt)
                ELSE c.SYSTEM_PROMPT,
            !.scan_all = inp.all_entities,
            !.selected_domains = inp.domains,
            !.entity_limit = inp.entity_limit,
            !.automation_read_file = inp.automation_read_yaml,
            !.automation_limit = inp.automation_limit]

Raised(p, inp) ==
  [IdleProc EXCEPT !.pc = "returned", !.kind = "generate", !.input = inp,
                   !.original_prompt = coordinator.SYSTEM_PROMPT,
                   !.raised = TRUE]

\* __init__.py:67-119
handle_generate_suggestions(p, inp) ==
  /\ UNCHANGED side_vars
  /\ Quiescent
  /\ FreeSlot(p)
  /\ stimuli < MaxStimuli
  /\ stimuli' = stimuli + 1
  /\ inp.custom_prompt # "" => Len(coordinator.SYSTEM_PROMPT) < MaxPromptParts
  /\ IF inp.provider_config # ""
       THEN \* hass.data[DOMAIN].get(provider_config) is None: line 94 raises
            /\ procs' = [procs EXCEPT ![p] = Raised(p, inp)]
            /\ UNCHANGED <<coordinator, debouncer, prev_cycle,
                           last_service>>
     ELSE IF FloatRaises(inp.temperature)
       THEN \* line 107 raises before the try/finally of line 109
            /\ coordinator' = ApplyOverrides(coordinator, inp)
            /\ procs' = [procs EXCEPT ![p] = Raised(p, inp)]
            /\ UNCHANGED <<debouncer, prev_cycle, last_service>>
     ELSE LET c1 == [ApplyOverrides(coordinator, inp) EXCEPT
                       !.current_temperature = Float(inp.temperature)]
          IN Settle(p, "generate", inp, coordinator.SYSTEM_PROMPT,
                    async_request_refresh(c1, debouncer, hass_states, config,
                                          p, "generate", last_service))
  /\ UNCHANGED <<hass_states, config>>

\* __init__.py:151-158, the ai_automation_suggester_update event
coordinator_request_all_suggestions(p) ==
  /\ UNCHANGED side_vars
  /\ Quiescent
  /\ FreeSlot(p)
  /\ stimuli < MaxStimuli
  /\ stimuli' = stimuli + 1
  /\ Settle(p, "event", DefaultInput, coordinator.SYSTEM_PROMPT,
            async_request_refresh([coordinator EXCEPT !.scan_all = TRUE],
                                  debouncer, hass_states, config,
                                  p, "event", last_service))
  /\ UNCHANGED <<hass_states, config>>

\* sensor.py:83, async_add_entities(entities, True): a coordinator entity's
\* update requests a refresh with whatever the coordinator fields hold
sensor_update(p) ==
  /\ UNCHANGED side_vars
  /\ Quiescent
  /\ FreeSlot(p)
  /\ stimuli < MaxStimuli
  /\ stimuli' = stimuli + 1
  /\ Settle(p, "plain", DefaultInput, coordinator.SYSTEM_PROMPT,
            async_request_refresh(coordinator, debouncer, hass_states,
                                  config, p, "plain", last_service))
  /\ UNCHANGED <<hass_states, config>>

\* a suspended cycle goes on to its next suspension point or to its end
Resume(p, r) ==
  /\ coordinator' = r.c
  /\ procs' = [procs EXCEPT
                 ![p].pc = IF r.pc = "done" THEN "cycle_done" ELSE r.pc,
                 ![p].cyc = r.loc]
  /\ UNCHANGED <<hass_states, config, debouncer, prev_cycle, last_service,
                 stimuli>>

\* coordinator.py:353-379 returns: automations.yaml was read (autom_codes
\* non-empty) or could not be (empty), and _build_prompt goes on
automations_file_read(p, autom_codes) ==
  /\ UNCHANGED side_vars
  /\ Quiescent
  /\ procs[p].pc = "reading"
  /\ Resume(p, Prompted(coordinator, config, procs[p].cyc, autom_codes))

ReplyTexts == { <<"[", "A", "]">>, <<"txt">>, <<"5">> }

ProviderErrors ==
  { "OpenAI processing error: ", "OpenAI error 500: body" }

\* A provider that posts the request a second time when the first fails.
ProviderFailed_retry(c, loc, err) ==
  IF loc.posts < 2
    THEN [c |-> [c EXCEPT !._last_error = err],
          loc |-> [loc EXCEPT !.posts = @ + 1],
          pc |-> "posting"]
    ELSE FinishCycle([c EXCEPT !._last_error = err], loc, NoResponse)

\* coordinator.py:452-455 and 470-474: a failed call sets _last_error and
\* returns None to _async_update_data; there is no loop around session.post
ProviderFailed(c, loc, err) ==
  FinishCycle([c EXCEPT !._last_error = err], loc, NoResponse)

\* coordinator.py:440-473: the provider call fails (timeout or transport
\* error, non-200 status, malformed envelope): _last_error is set, None
provider_fails(p, err) ==
  /\ UNCHANGED side_vars
  /\ Quiescent
  /\ procs[p].pc = "posting"
  /\ Resume(p, ProviderFailed(coordinator, procs[p].cyc, err))

\* coordinator.py:467: the provider answers 200 with a well-formed envelope
\* whose content is the text, or null
provider_replies(p, response) ==
  /\ UNCHANGED side_vars
  /\ Quiescent
  /\ procs[p].pc = "posting"
  /\ Resume(p, FinishCycle(coordinator, procs[p].cyc, response))

\* the refresh is over: the debouncer starts its cooldown and releases the
\* lock, and the handler that awaited the refresh runs to its return
refresh_returns(p) ==
  /\ UNCHANGED side_vars
  /\ procs[p].pc = "cycle_done"
  /\ debouncer' = [debouncer EXCEPT !.lock = Unlocked, !.timer_task = TRUE]
  /\ coordinator' = Epilogue(coordinator, procs[p].kind,
                             procs[p].original_prompt)
  /\ procs' = [procs EXCEPT ![p].pc = "returned"]
  /\ prev_cycle' = [ran |-> TRUE, snapshot |-> procs[p].cyc.current,
                    scan_all |-> procs[p].cyc.scan_all]
  /\ UNCHANGED <<hass_states, config, last_service, stimuli>>

\* the task of the handler ends
task_done(p) ==
  /\ UNCHANGED side_vars
  /\ procs[p].pc = "returned"
  /\ procs' = [procs EXCEPT ![p] = IdleProc]
  /\ last_service' = IF procs[p].kind = "timer"
                       THEN last_service ELSE ServiceTag(procs[p])
  /\ UNCHANGED <<hass_states, config, coordinator, debouncer, prev_cycle,
                 stimuli>>

\* the cooldown timer of the debouncer ends; a deferred request now runs
on_debounce ==
  /\ UNCHANGED side_vars
  /\ Quiescent
  /\ debouncer.timer_task
  /\ LET d1 == [debouncer EXCEPT !.timer_task = FALSE,
                                 !.execute_at_end_of_timer = FALSE]
     IN IF debouncer.execute_at_end_of_timer /\ debouncer.lock = Unlocked
          THEN LET r == StartCycle(coordinator, hass_states, config, "timer",
                                   last_service)
               IN Settle(TimerTask, "timer", DefaultInput,
                         coordinator.SYSTEM_PROMPT,
                         [c |-> r.c, d |-> [d1 EXCEPT !.lock = TimerTask],
                          loc |-> r.loc, how |-> "ran", pc |-> r.pc])
          ELSE /\ debouncer' = d1
               /\ UNCHANGED <<coordinator, procs, prev_cycle, last_service>>
  /\ UNCHANGED <<hass_states, config, stimuli>>

\* ------------------------------------------------------------ specification
\* the integration right after async_setup_entry
Constructed ==
  /\ hass_states = <<>>
  /\ config \in ProviderConfigs
  /\ coordinator = NewCoordinator
  /\ debouncer = [lock |-> Unlocked, timer_task |-> FALSE,
                  execute_at_end_of_timer |-> FALSE]
  /\ procs = [p \in Procs |-> IdleProc]
  /\ prev_cycle = [ran |-> FALSE, snapshot |-> EmptyDict, scan_all |-> FALSE]
  /\ last_service = "none"
  /\ stimuli = 0

Init ==
  /\ Constructed
  /\ raw_response = <<>>
  /\ parsed = Unparsed
  /\ service = NoService
  /\ truncation = NoTruncation

Next ==
  \/ \E e \in Entities, s \in LiveStates \cup BrokenStates :
       EntityChange(e, s)
  \/ \E p \in Callers, inp \in CallInputs : handle_generate_suggestions(p, inp)
  \/ \E p \in Callers : coordinator_request_all_suggestions(p)
  \/ \E p \in Callers : sensor_update(p)
  \/ \E p \in Procs, autom_codes \in BOOLEAN :
       automations_file_read(p, autom_codes)
  \/ \E p \in Procs, err \in ProviderErrors : provider_fails(p, err)
  \/ \E p \in Procs, text \in ReplyTexts :
       provider_replies(p, [some |-> TRUE, text |-> text])
  \/ \E p \in Procs : provider_replies(p, NoResponse)
  \/ \E p \in Procs : refresh_returns(p)
  \/ \E p \in Procs : task_done(p)
  \/ on_debounce

Spec == Init /\ [][Next]_vars

\* The event loop runs every task that is ready, the executor job that
\* reads automations.yaml returns, the cooldown timer fires, and the provider
\* call answers or hits its timeout.
Progress ==
  \/ \E p \in Procs, autom_codes \in BOOLEAN :
       automations_file_read(p, autom_codes)
  \/ \E p \in Procs, err \in ProviderErrors : provider_fails(p, err)
  \/ \E p \in Procs, text \in ReplyTexts :
       provider_replies(p, [some |-> TRUE, text |-> text])
  \/ \E p \in Procs : provider_replies(p, NoResponse)
  \/ \E p \in Procs : refresh_returns(p)
  \/ \E p \in Procs : task_done(p)
  \/ on_debounce

\* the integration once the host has registered its first two entities
LiveInit ==
  /\ hass_states = <<[eid |-> EntityIds[2], state |-> "on"],
                     [eid |-> EntityIds[1], state |-> "on"]>>
  /\ config \in ProviderConfigs
  /\ coordinator = NewCoordinator
  /\ debouncer = [lock |-> Unlocked, timer_task |-> FALSE,
                  execute_at_end_of_timer |-> FALSE]
  /\ procs = [p \in Procs |-> IdleProc]
  /\ prev_cycle = [ran |-> FALSE, snapshot |-> EmptyDict, scan_all |-> FALSE]
  /\ last_service = "none"
  /\ stimuli = 2
  /\ raw_response = <<>>
  /\ parsed = Unparsed
  /\ service = NoService
  /\ truncation = NoTruncation

LiveSpec == LiveInit /\ [][Next]_vars /\ WF_vars(Progress)

\* ------------------------------------- specification of the dispatcher
\* every provider, with its required setting absent, empty or set
DispatchConfigs ==
  {[provider |-> pr, api_key |-> k, temperature |-> 7] :
     pr \in KnownProviders, k \in {None, "", "sk"}}

\* the integration of any provider once the host has registered an entity
DispatchInit ==
  /\ hass_states = <<[eid |-> EntityIds[1], state |-> "on"]>>
  /\ config \in DispatchConfigs
  /\ coordinator = NewCoordinator
  /\ debouncer = [lock |-> Unlocked, timer_task |-> FALSE,
                  execute_at_end_of_timer |-> FALSE]
  /\ procs = [p \in Procs |-> IdleProc]
  /\ prev_cycle = [ran |-> FALSE, snapshot |-> EmptyDict, scan_all |-> FALSE]
  /\ last_service = "none"
  /\ stimuli = 1
  /\ raw_response = <<>>
  /\ parsed = Unparsed
  /\ service = NoService
  /\ truncation = NoTruncation

DispatchNext ==
  \/ \E p \in Callers : coordinator_request_all_suggestions(p)
  \/ \E p \in Procs, err \in ProviderErrors : provider_fails(p, err)
  \/ \E p \in Procs, text \in ReplyTexts :
       provider_replies(p, [some |-> TRUE, text |-> text])
  \/ \E p \in Procs : refresh_returns(p)
  \/ \E p \in Procs : task_done(p)
  \/ on_debounce

DispatchSpec == DispatchInit /\ [][DispatchNext]_vars

\* ------------------------------------------- specification of the parser
\* replies whose fenced block holds an array that does not parse
FencedReplies ==
  { <<"fence", "[", "cut", "]", "fence">>,
    <<"fence", "[", "A", "cut", "]", "fence">> }

\* every reply of at most MaxTokens tokens, and the fenced ones
Replies == UNION {[1..n -> Tokens] : n \in 0..MaxTokens} \cup FencedReplies

\* coordinator.py:186: the reply goes through _parse_json_response
parse_reply ==
  /\ ~parsed.done
  /\ parsed' = [done |-> TRUE, value |-> _parse_json_response(raw_response),
                stages |-> ParseStages(raw_response)]
  /\ UNCHANGED <<hass_states, config, coordinator, debouncer, procs,
                 prev_cycle, last_service, stimuli, raw_response, service,
                 truncation>>

ParserInit ==
  /\ Constructed
  /\ raw_response \in Replies
  /\ parsed = Unparsed
  /\ service = NoService
  /\ truncation = NoTruncation

ParserNext == parse_reply

ParserSpec == ParserInit /\ [][ParserNext]_vars

\* ------------------------------ specification of the input budget check
\* A provider that estimates the tokens of the prompt rounding upwards.
Truncate_ceil(prompt, in_budget) ==
  IF (Len(prompt) + 3) \div 4 > in_budget
    THEN SubSeq(prompt, 1, in_budget * 4)
    ELSE prompt

\* coordinator.py:424-425, the same two lines in every provider:
\* if len(prompt) // 4 > in_budget: prompt = prompt[: in_budget * 4]
Truncate(prompt, in_budget) ==
  IF Len(prompt) \div 4 > in_budget
    THEN SubSeq(prompt, 1, in_budget * 4)
    ELSE prompt

\* a prompt text of n characters, each standing for itself
PromptText(n) == [i \in 1..n |-> i]

\* the provider method of the configured provider builds the user message
\* of its request body from the prompt it was given
provider_builds_body ==
  /\ ~truncation.done
  /\ config.provider \in KnownProviders
  /\ truncation' = [truncation EXCEPT
                      !.done = TRUE,
                      !.content = Truncate(truncation.prompt,
                                           truncation.in_budget)]
  /\ UNCHANGED <<hass_states, config, coordinator, debouncer, procs,
                 prev_cycle, last_service, stimuli, raw_response, parsed,
                 service>>

BudgetInit ==
  /\ hass_states = <<>>
  /\ config \in {c \in DispatchConfigs : c.api_key = "sk"}
  /\ coordinator = NewCoordinator
  /\ debouncer = [lock |-> Unlocked, timer_task |-> FALSE,
                  execute_at_end_of_timer |-> FALSE]
  /\ procs = [p \in Procs |-> IdleProc]
  /\ prev_cycle = [ran |-> FALSE, snapshot |-> EmptyDict, scan_all |-> FALSE]
  /\ last_service = "none"
  /\ stimuli = 0
  /\ raw_response = <<>>
  /\ parsed = Unparsed
  /\ service = NoService
  /\ \E n \in 0..MaxPromptLen, b \in 0..MaxBudget :
       truncation = [NoTruncation EXCEPT !.prompt = PromptText(n),
                                         !.in_budget = b]

BudgetNext == provider_builds_body

BudgetSpec == BudgetInit /\ [][BudgetNext]_vars

\* ------------------------- specification of the save service and the card
SuggestionIds == {"latest_2", "latest_9", "nope"}

CardActions == {"accept", "decline", "dismiss"}

\* the replies the provider gives here: an array of two suggestions
CardReplies == {<<"[", "A", "B", "]">>}

\* coordinator.handle_save_suggestion(...): AIAutomationCoordinator defines
\* no such method, the attribute lookup raises AttributeError
coordinator_handle_save_suggestion(name, suggestion_id) ==
  [name |-> name, suggestion_id |-> suggestion_id, raised |-> TRUE,
   success |-> FALSE, saved |-> None]

\* __init__.py:139-140, the save_suggestion service
handle_save_suggestion(suggestion_id) ==
  /\ Quiescent
  /\ stimuli < MaxStimuli
  /\ stimuli' = stimuli + 1
  /\ service' = coordinator_handle_save_suggestion("save_suggestion",
                                                    suggestion_id)
  /\ UNCHANGED <<hass_states, config, coordinator, debouncer, procs,
                 prev_cycle, last_service, raw_response, parsed, truncation>>

\* __init__.py:254-268, AIAutomationActionView.post
post(action, suggestion_id) ==
  /\ Quiescent
  /\ stimuli < MaxStimuli
  /\ stimuli' = stimuli + 1
  /\ service' =
       CASE action = "accept" ->
              \* the loop calls the save method of every coordinator
              coordinator_handle_save_suggestion("accept", suggestion_id)
         [] action = "decline" ->
              [name |-> "decline", suggestion_id |-> suggestion_id,
               raised |-> FALSE, success |-> TRUE, saved |-> None]
         [] OTHER ->
              [name |-> action, suggestion_id |-> suggestion_id,
               raised |-> FALSE, success |-> FALSE, saved |-> None]
  /\ UNCHANGED <<hass_states, config, coordinator, debouncer, procs,
                 prev_cycle, last_service, raw_response, parsed, truncation>>

CardNext ==
  \/ \E e \in Entities : EntityChange(e, "on")
  \/ \E p \in Callers : sensor_update(p)
  \/ \E p \in Procs, text \in CardReplies :
       provider_replies(p, [some |-> TRUE, text |-> text])
  \/ \E p \in Procs : refresh_returns(p)
  \/ \E p \in Procs : task_done(p)
  \/ on_debounce
  \/ \E suggestion_id \in SuggestionIds :
       handle_save_suggestion(suggestion_id)
  \/ \E action \in CardActions, suggestion_id \in SuggestionIds :
       post(action, suggestion_id)

CardSpec == Init /\ [][CardNext]_vars

\* ------------------------------------------------------------- properties
EntitiesTitle == "Here are the Entities (Recently Active):"

BrokenTitle == "BROKEN/UNAVAILABLE"

\* p stands at the return of _async_update_data
CycleEnded(p) == procs[p].pc = "cycle_done"

\* p has started a cycle (suspended in it, or at its end)
InCycle(p) == procs[p].pc \in {"reading", "posting", "cycle_done"}

\* C1: a cycle whose provider dispatch fails ends with last_error set to a
\* non-empty message and with data.suggestions_list exactly as it was before
\* the cycle started.
C1_DispatchFailureKeepsList ==
  \A p \in Procs :
    (CycleEnded(p) /\ procs[p].cyc.outcome = "dispatch_failed")
      => /\ coordinator.data.last_error \notin {None, ""}
         /\ coordinator.data.suggestions_list = procs[p].cyc.list_before

\* C2: when an invocation of generate_suggestions on a coordinator has
\* returned, normally or with an error, every per-run override is back at
\* its default and the system prompt is what it was before the call.
C2_OverridesRestored ==
  \A p \in Callers :
    (/\ procs[p].pc = "returned"
     /\ procs[p].kind = "generate"
     /\ procs[p].input.provider_config = "")
      => /\ coordinator.scan_all = FALSE
         /\ coordinator.selected_domains = {}
         /\ coordinator.entity_limit = 200
         /\ coordinator.automation_limit = 100
         /\ coordinator.automation_read_file = FALSE
         /\ coordinator.SYSTEM_PROMPT = procs[p].original_prompt

\* the configuration the invocation behind the cycle of p asked for
OwnPrompt(p) ==
  IF procs[p].kind = "generate" /\ procs[p].input.custom_prompt # ""
    THEN <<procs[p].input.custom_prompt>>
    ELSE <<>>

OwnScanAll(p) ==
  CASE procs[p].kind = "generate" -> procs[p].input.all_entities
    [] procs[p].kind = "event" -> TRUE
    [] OTHER -> FALSE

OwnDomains(p) ==
  IF procs[p].kind = "generate" THEN procs[p].input.domains ELSE {}

\* C3: configuration never leaks between runs: once every invocation has
\* returned the system prompt is the base prompt and scan_all is false, and
\* a cycle reads only the prompt, scan_all and domain filter of the
\* invocation that triggered it.
C3_NoConfigurationLeak ==
  /\ (\A p \in Procs : procs[p].pc = "idle")
       => /\ coordinator.SYSTEM_PROMPT = SYSTEM_PROMPT
          /\ coordinator.scan_all = FALSE
  /\ \A p \in Callers :
       InCycle(p)
         => /\ procs[p].cyc.scan_all = OwnScanAll(p)
            /\ procs[p].cyc.domains = OwnDomains(p)
            /\ procs[p].cyc.prompt.built
                 => procs[p].cyc.prompt.system = OwnPrompt(p)

\* p runs a cycle that was triggered without overrides
DefaultTriggered(p) ==
  /\ InCycle(p)
  /\ \/ procs[p].kind = "plain"
     \/ procs[p].kind = "generate" /\ procs[p].input = DefaultInput

\* C4: the first cycle triggered without overrides after a completed
\* generate_suggestions call with temperature 0.9 and all_entities picks in
\* delta mode and sends the stored default temperature.
C4_NextCycleUsesDefaults ==
  \A p \in Callers :
    (DefaultTriggered(p) /\ procs[p].cyc.after = "override_done")
      => /\ ~procs[p].cyc.scan_all
         /\ DOMAIN procs[p].cyc.picked =
              DOMAIN procs[p].cyc.current
                \ DOMAIN procs[p].cyc.baseline_before
         /\ procs[p].cyc.sent.sent
              => procs[p].cyc.sent.temperature = config.temperature

C4_Witness ==
  \E p \in Callers :
    /\ DefaultTriggered(p)
    /\ procs[p].cyc.after = "override_done"
    /\ procs[p].cyc.sent.sent
    /\ procs[p].cyc.baseline_before # EmptyDict
    /\ procs[p].cyc.picked # EmptyDict

\* C5: of two consecutive cycles with scan-all false, the second picks
\* exactly the entities of its snapshot whose id is not a key of the
\* snapshot of the first.
C5_DeltaSelection ==
  \A p \in Procs :
    (/\ CycleEnded(p)
     /\ prev_cycle.ran
     /\ ~prev_cycle.scan_all
     /\ ~procs[p].cyc.scan_all)
      => DOMAIN procs[p].cyc.picked =
           DOMAIN procs[p].cyc.current \ DOMAIN prev_cycle.snapshot

\* C6: at the end of every cycle, whichever path it took, previous_entities
\* equals the snapshot collected in that cycle.
C6_BaselineIsSnapshot ==
  \A p \in Procs :
    CycleEnded(p) => coordinator.previous_entities = procs[p].cyc.current

C8_NoBrokenEntity ==
  \A p \in Procs :
    InCycle(p)
      => /\ procs[p].cyc.broken \cap DOMAIN procs[p].cyc.current = {}
         /\ procs[p].cyc.broken \cap DOMAIN procs[p].cyc.picked = {}
         /\ procs[p].cyc.broken
              \cap SectionIds(procs[p].cyc.prompt, EntitiesTitle) = {}
         /\ (CycleEnded(p) /\ procs[p].cyc.stored)
              => procs[p].cyc.broken
                   \cap DOMAIN coordinator.previous_entities = {}

C8_Witness ==
  \E p \in Procs :
    /\ CycleEnded(p)
    /\ procs[p].cyc.stored
    /\ procs[p].cyc.broken # {}
    /\ SectionIds(procs[p].cyc.prompt, EntitiesTitle) # {}
    /\ coordinator.previous_entities # EmptyDict

\* C9: a cycle that finds entities in state unavailable or unknown builds a
\* prompt whose BROKEN/UNAVAILABLE section lists their ids, even when no
\* entity is new.
C9_BrokenListedInPrompt ==
  \A p \in Procs :
    (/\ CycleEnded(p)
     /\ procs[p].cyc.outcome # "exception"
     /\ procs[p].cyc.domains = {}
     /\ procs[p].cyc.broken # {})
      => /\ procs[p].cyc.prompt.built
         /\ procs[p].cyc.broken
              \subseteq SectionIds(procs[p].cyc.prompt, BrokenTitle)

\* C10: a cycle that runs with scan-all true picks its whole snapshot,
\* whatever the baseline holds.
C10_ScanAllPicksAll ==
  \A p \in Procs :
    (InCycle(p) /\ procs[p].cyc.scan_all)
      => procs[p].cyc.picked = procs[p].cyc.current

C10_Witness ==
  \E p \in Procs :
    /\ InCycle(p)
    /\ procs[p].cyc.scan_all
    /\ procs[p].cyc.current # EmptyDict
    /\ procs[p].cyc.baseline_before = procs[p].cyc.current

\* C11: for every reply the parser returns a list, also for a reply that is
\* valid JSON but not an array.
C11_ParserReturnsList == parsed.done => parsed.value.t = "list"

\* a JSON array cut off inside its final object, with no closing bracket
CutOffArray(toks) ==
  /\ Len(toks) >= 2
  /\ toks[1] = "["
  /\ toks[Len(toks)] = "cut"
  /\ \A i \in 2..(Len(toks) - 1) : toks[i] \in Objects

\* C12: for an array cut off inside its final object the parser returns
\* exactly the complete leading objects, in their order.
C12_CutOffArrayRecovered ==
  (parsed.done /\ CutOffArray(raw_response))
    => parsed.value =
         [t |-> "list", v |-> SubSeq(raw_response, 2, Len(raw_response) - 1)]

\* C13: the provider request of the cycle that a generate_suggestions call
\* with a temperature override triggers carries that temperature, not the
\* configured one.
C13_TemperatureOverrideSent ==
  \A p \in Callers :
    (/\ InCycle(p)
     /\ procs[p].kind = "generate"
     /\ procs[p].input.temperature = "0.9"
     /\ procs[p].cyc.sent.sent)
      => procs[p].cyc.sent.temperature = Float(procs[p].input.temperature)

\* sensor.py:110-112: the history the suggestions sensor exposes,
\* data.get("history", [])
SensorHistory(data) ==
  IF "history" \in DOMAIN data THEN data.history ELSE <<>>

\* C14: after a cycle that produced suggestions the history holds at most
\* 100 entries, most recent first: the suggestions of that cycle lead it.
C14_HistoryKeepsLatest ==
  \A p \in Procs :
    (/\ CycleEnded(p)
     /\ procs[p].cyc.outcome = "merged"
     /\ coordinator.data.suggestions_list.t = "list")
      => LET history == SensorHistory(coordinator.data)
             latest == coordinator.data.suggestions_list.v
         IN /\ Len(history) <= 100
            /\ Len(history) >= Len(latest)
            /\ SubSeq(history, 1, Len(latest)) = latest

\* the keys of the objects a reply holds: "A" is a complete suggestion, "B"
\* one that carries a title only
ReplyKeys(obj) ==
  IF obj = "A" THEN {"title", "description", "type", "yaml"} ELSE {"title"}

\* coordinator.py:186-195: the parsed objects go into data as they are
StoredKeys(item) == ReplyKeys(item)

\* C15: every record of the current list of a successful cycle carries a
\* generated id, a creation timestamp and the optional fields, and the
\* history has grown by the records of the cycle.
C15_MergedRecordsComplete ==
  \A p \in Procs :
    (/\ CycleEnded(p)
     /\ procs[p].cyc.outcome = "merged"
     /\ coordinator.data.suggestions_list.t = "list")
      => /\ \A i \in DOMAIN coordinator.data.suggestions_list.v :
              {"suggestion_id", "created", "type", "description", "yaml"}
                \subseteq StoredKeys(coordinator.data.suggestions_list.v[i])
         /\ Len(SensorHistory(coordinator.data))
              = Len(coordinator.data.suggestions_list.v)

\* the current suggestion list is the array [A, B]
ListIsAB == coordinator.data.suggestions_list = [t |-> "list", v |-> <<"A", "B">>]

\* C16: with the current list [A, B] a save_suggestion call for "latest_2"
\* saves B; a call that names an unknown or out-of-range id does not raise
\* and saves nothing.
C16_SaveLatestN ==
  (service.name = "save_suggestion" /\ ListIsAB)
    => /\ ~service.raised
       /\ service.suggestion_id = "latest_2" => service.saved = "B"
       /\ service.suggestion_id # "latest_2" => service.saved = None

\* C17: an accept action saves on the instance that holds the suggestion
\* and answers success; a decline action answers success.
C17_AcceptSavesDeclineAcks ==
  /\ (service.name = "accept" /\ ListIsAB)
       => /\ ~service.raised
          /\ service.success
          /\ service.suggestion_id = "latest_2" => service.saved = "B"
  /\ service.name = "decline" => service.success /\ ~service.raised

\* sensor.py:135-142: the state of the provider status sensor
ProviderStatus(last_update_success, data) ==
  IF ~last_update_success THEN "error"
  ELSE IF data.last_error \notin {None, ""} THEN "error"
  ELSE "connected"

\* the cycle of p produced a last-error
CycleFailed(p) == procs[p].cyc.outcome \in {"dispatch_failed", "exception"}

\* C18: after every cycle the status sensor shows "error" exactly when that
\* cycle produced a last-error, and a cycle without one, a no-op cycle
\* included, leaves the exposed last_error empty.  (_async_update_data
\* catches every exception, so last_update_success stays true.)
C18_StatusFollowsLastCycle ==
  \A p \in Procs :
    CycleEnded(p)
      => /\ ProviderStatus(TRUE, coordinator.data) = "error" <=> CycleFailed(p)
         /\ ~CycleFailed(p) => coordinator.data.last_error = None

\* C19: every cycle that starts returns, whatever fails inside it: its task
\* gets back to idle and the refresh lock is released again.
C19_CycleReturnsToIdle ==
  /\ \A p \in Procs : InCycle(p) ~> (procs[p].pc = "idle")
  /\ (debouncer.lock # Unlocked) ~> (debouncer.lock = Unlocked)

C19_Witness ==
  \E p \in Procs :
    /\ procs[p].pc = "returned"
    /\ procs[p].cyc.outcome \in {"dispatch_failed", "exception"}
    /\ debouncer.lock = Unlocked

\* C20: a cycle whose dispatch succeeds but whose reply parses to an empty
\* list leaves the current suggestion list as it was before the cycle, sets
\* no last_error and stores the snapshot as the baseline.
C20_EmptyParseKeepsList ==
  \A p \in Procs :
    (CycleEnded(p) /\ procs[p].cyc.outcome = "empty_parse")
      => /\ coordinator.data.suggestions_list = procs[p].cyc.list_before
         /\ coordinator.data.last_error = None
         /\ coordinator.previous_entities = procs[p].cyc.current

\* the step in which p starts a cycle that finds nothing to pick
NoopStep(p) ==
  /\ procs[p].pc = "idle"
  /\ procs'[p].pc = "cycle_done"
  /\ procs'[p].cyc.outcome = "noop"
  /\ procs'[p].cyc.broken = {}

\* C21: a cycle with an empty pick-set and no broken entity posts no
\* request, builds no prompt, leaves the exposed data as it was and stores
\* the snapshot as the baseline.
C21_NoopCycleLeavesData ==
  [][\A p \in Procs :
       NoopStep(p)
         => /\ ~procs'[p].cyc.sent.sent
            /\ ~procs'[p].cyc.prompt.built
            /\ coordinator'.data = coordinator.data
            /\ coordinator'.previous_entities = procs'[p].cyc.current]_vars

C21_Witness ==
  \E p \in Procs :
    /\ CycleEnded(p)
    /\ procs[p].cyc.outcome = "noop"
    /\ procs[p].cyc.broken = {}
    /\ procs[p].cyc.current # EmptyDict
    /\ coordinator.previous_entities = procs[p].cyc.current
    /\ Truthy(coordinator.data.suggestions_list)

\* the cycle of p built its prompt and _dispatch failed before any post
FailedBeforePost(p) ==
  /\ CycleEnded(p)
  /\ procs[p].cyc.prompt.built
  /\ ~procs[p].cyc.sent.sent

\* C22: the dispatch never raises into the cycle, and when it fails (unknown
\* provider, timeout or transport error, non-200 status, malformed
\* envelope) the last-error message of the coordinator is not empty.
C22_DispatchFailureHasMessage ==
  /\ [](\A p \in Procs :
          FailedBeforePost(p)
            => /\ procs[p].cyc.outcome = "dispatch_failed"
               /\ coordinator._last_error \notin {None, ""})
  /\ [][\A p \in Procs :
          (\E err \in ProviderErrors : provider_fails(p, err))
            => /\ procs'[p].cyc.outcome = "dispatch_failed"
               /\ coordinator'._last_error \notin {None, ""}
               /\ coordinator'._last_error \in ProviderErrors]_vars

C22_Witness ==
  \E p \in Procs :
    /\ CycleEnded(p)
    /\ procs[p].cyc.sent.sent
    /\ procs[p].cyc.outcome = "dispatch_failed"
    /\ coordinator._last_error = "OpenAI error 500: body"

\* C23: when the setting the active provider requires is absent or empty,
\* the dispatch posts no request and the cycle ends with last_error set.
C23_MissingCredentialNotPosted ==
  \A p \in Procs :
    (/\ InCycle(p)
     /\ procs[p].cyc.prompt.built
     /\ config.provider \in KnownProviders
     /\ config.api_key \in {None, ""})
      => /\ ~procs[p].cyc.sent.sent
         /\ CycleEnded(p)
         /\ coordinator.data.last_error \notin {None, ""}

\* C24: a cycle makes at most one provider request: none when it is a no-op
\* or fails before the post, and a failed request is not posted again.
C24_AtMostOneRequest ==
  \A p \in Procs :
    (InCycle(p) \/ CycleEnded(p))
      => /\ procs[p].cyc.posts <= 1
         /\ procs[p].cyc.posts = 1 <=> procs[p].cyc.sent.sent
         /\ procs[p].cyc.outcome = "noop" => procs[p].cyc.posts = 0
         /\ procs[p].pc = "posting" => procs[p].cyc.posts = 1

C24_Witness ==
  \E p \in Procs :
    /\ CycleEnded(p)
    /\ procs[p].cyc.outcome = "dispatch_failed"
    /\ procs[p].cyc.posts = 1
    /\ coordinator._last_error \in ProviderErrors

\* a fenced block was found in the reply and its contents do not parse
FenceGroupFails(response) ==
  /\ json_loads(response) = JsonErr
  /\ FenceMatches(response) # {}
  /\ json_loads(FenceGroup(response)) = JsonErr

\* C25: when the direct parse fails and the contents of the fenced block do
\* not parse, the parser still tries the slice from the first "[" to the
\* last "]", and the objects found one by one in the reply are returned.
C25_LaterStagesAttempted ==
  (parsed.done /\ FenceGroupFails(raw_response))
    => /\ \E i \in DOMAIN parsed.stages : parsed.stages[i] = "slice"
       /\ (\E i \in DOMAIN raw_response : raw_response[i] \in Objects)
             => Truthy(parsed.value)

\* content is the first n characters of prompt
IsPrefix(content, prompt) ==
  /\ Len(content) <= Len(prompt)
  /\ \A i \in DOMAIN content : content[i] = prompt[i]

\* C26: the prompt a provider sends is a prefix of the built prompt whose
\* estimated tokens (length div 4) do not exceed the input budget B: the
\* whole prompt when its estimate is within B, else its first 4 * B
\* characters.
C26_PromptFitsBudget ==
  truncation.done
    => /\ IsPrefix(truncation.content, truncation.prompt)
       /\ Len(truncation.content) \div 4 <= truncation.in_budget
       /\ Len(truncation.prompt) \div 4 <= truncation.in_budget
            => truncation.content = truncation.prompt
       /\ Len(truncation.prompt) \div 4 > truncation.in_budget
            => Len(truncation.content) = 4 * truncation.in_budget

C26_Witness ==
  /\ truncation.done
  /\ truncation.in_budget = 2
  /\ Len(truncation.prompt) = 13
  /\ truncation.content = PromptText(8)

\* the place of entity e in hass.states, 1 for the most recently updated
Recency(hs, e) == CHOOSE i \in DOMAIN hs : hs[i].eid = e

\* the step in which task p starts a cycle with a non-empty pick-set
StartsCycle(p) ==
  /\ procs[p].pc = "idle"
  /\ procs'[p].cyc.picked # EmptyDict

\* C27: the entity blocks of the prompt describe the N most recently
\* updated entities of the pick-set, N = entity_limit, most recent first,
\* and the whole pick-set when it has at most N entities.
C27_MostRecentSelected ==
  /\ [](\A p \in Procs :
          procs[p].cyc.prompt.built
            => procs[p].cyc.prompt.body[1].ids = procs[p].cyc.selection)
  /\ [][\A p \in Procs :
          StartsCycle(p)
            => LET picked == DOMAIN procs'[p].cyc.picked
                   sel == procs'[p].cyc.selection
                   N == coordinator'.entity_limit
               IN /\ Len(sel) = Min(N, Cardinality(picked))
                  /\ \A i \in DOMAIN sel : sel[i] \in picked
                  /\ \A i, j \in DOMAIN sel :
                       i < j => Recency(hass_states, sel[i])
                                  < Recency(hass_states, sel[j])
                  /\ \A i \in DOMAIN sel :
                       \A e \in picked \ {sel[k] : k \in DOMAIN sel} :
                         Recency(hass_states, sel[i])
                           < Recency(hass_states, e)]_vars

C27_Witness ==
  \E p \in Procs :
    /\ procs[p].cyc.prompt.built
    /\ Len(procs[p].cyc.selection) = 1
    /\ Cardinality(DOMAIN procs[p].cyc.picked) > 1
    /\ procs[p].cyc.prompt.body[1].ids = <<hass_states[1].eid>>

\* the entities of hass.states that are not unavailable or unknown
LiveIds(hs) == {e \in Ids(hs) : StateOf(hs, e) \notin BrokenStates}

\* the step in which task p starts a cycle, whatever its pick-set
EntersCycle(p) ==
  /\ procs[p].pc = "idle"
  /\ procs'[p].cyc.outcome # ""

\* C28: after a cycle that ends without an internal exception the baseline
\* has exactly the ids that passed the domain allow-list of the cycle and
\* were not unavailable or unknown; after a cycle filtered to domains D it
\* holds only entities of D, and a delta cycle without a filter picks every
\* live entity that the baseline does not hold.
C28_BaselineIsFilteredSnapshot ==
  /\ [](\A p \in Procs :
          (CycleEnded(p) /\ procs[p].cyc.outcome # "exception")
            => /\ DOMAIN coordinator.previous_entities
                    = DOMAIN procs[p].cyc.current
               /\ procs[p].cyc.domains # {}
                    => \A e \in DOMAIN coordinator.previous_entities :
                         DomainOf(e) \in procs[p].cyc.domains)
  /\ [][\A p \in Procs :
          EntersCycle(p)
            => LET D == coordinator'.selected_domains
               IN /\ procs'[p].cyc.domains = D
                  /\ DOMAIN procs'[p].cyc.current
                       = {e \in LiveIds(hass_states) :
                            D = {} \/ DomainOf(e) \in D}
                  /\ (D = {} /\ ~procs'[p].cyc.scan_all)
                       => DOMAIN procs'[p].cyc.picked
                            = LiveIds(hass_states)
                                \ DOMAIN coordinator.previous_entities]_vars

C28_Witness ==
  \E p \in Procs :
    /\ CycleEnded(p)
    /\ procs[p].cyc.outcome \in {"merged", "empty_parse", "dispatch_failed",
                                  "no_response"}
    /\ procs[p].cyc.domains = {"light"}
    /\ "sensor.temp" \in LiveIds(hass_states)
    /\ DOMAIN coordinator.previous_entities = {"light.kitchen"}

\* C29: a cycle that takes the no-response branch after the dispatch (the
\* list and entities_processed are reset) exposes a non-empty last_error,
\* also when the provider answered 200 with empty or null content.
C29_NoResponseHasMessage ==
  \A p \in Procs :
    (/\ CycleEnded(p)
     /\ procs[p].cyc.outcome \in {"dispatch_failed", "no_response"})
      => coordinator.data.last_error \notin {None, ""}

\* C30: after a cycle in which the provider returned a response,
\* entities_processed holds exactly the ids of the entity blocks of the
\* prompt of that cycle, also when the pick-set exceeds entity_limit.
C30_ProcessedAreInPrompt ==
  \A p \in Procs :
    (/\ CycleEnded(p)
     /\ procs[p].cyc.outcome \in {"merged", "empty_parse"})
      => coordinator.data.entities_processed
           = SectionIds(procs[p].cyc.prompt, EntitiesTitle)

====
